---------------------------- MODULE Spec2Model ----------------------------
(***************************************************************************)
(* Model of src/app.py (soil-wss): the texture classifier                  *)
(* determine_soil_type, the sample generator generate_soil_data, the       *)
(* region filter PolygonAnalyzer.points_in_polygon, the aggregation of     *)
(* generate_pdf_report, and the rerun loop of main.                        *)
(*                                                                         *)
(* Numbers.  Percentages are integers (the generator draws them with       *)
(* randint).  Coordinates are integers on a grid.  pH and EC are held in   *)
(* tenths (the generator rounds both to one decimal), depth in cm.         *)
(* silt + 1.5*clay < 15 is computed as 2*silt + 3*clay < 30, which is      *)
(* exact for integers.                                                     *)
(***************************************************************************)
EXTENDS Integers, Sequences, FiniteSets, TLC

VARIABLES
    pc,            \* position of the run being modelled
    args,          \* <<sand, silt, clay>> handed to determine_soil_type
    results,       \* what each call of determine_soil_type(args) returned
    branch,        \* the branch of the if/elif ladder the last call took
    theme,         \* st.session_state.theme
    drawing,       \* st.session_state.map["last_active_drawing"] ring, or NoDrawing
    df,            \* the DataFrame of samples (points / data)
    in_region,     \* the column df["in region"]: points_in_polygon's mask
    filtered_df,   \* df[df["in region"]] (selected_area_data)
    selected_point,\* the selectbox's sample index
    report         \* what generate_pdf_report put into the PDF, or NoReport

vars == <<pc, args, results, branch, theme, drawing, df, in_region,
          filtered_df, selected_point, report>>

-----------------------------------------------------------------------------
(* Bounds of the model *)

\* inputs of the classifier have sand + silt + clay within SumSlack of 100
SumSlack == 1
\* how often the classifier is called on the same arguments
MaxCalls == 2

(* Program constants *)

\* clay = 100 - sand - silt
Total == 100

-----------------------------------------------------------------------------
(* AppConfig.SOIL_TAXONOMY: the six classes, by their "class" entry *)

Loam == "Loam"
Clay == "Clay"
Sandy == "Sandy"
SiltLoam == "Silt Loam"
SandyLoam == "Sandy Loam"
ClayLoam == "Clay Loam"

SoilTypes == {Loam, Clay, Sandy, SiltLoam, SandyLoam, ClayLoam}

\* values that are no class
NoClass == "None"
InvalidCompositionError == "InvalidCompositionError"

-----------------------------------------------------------------------------
(* determine_soil_type: the conditions of the ladder, in source order *)

Rule1(sand, silt, clay) == sand > 85 /\ 2 * silt + 3 * clay < 30

Rule2_LooseBound(sand, silt, clay) ==
    sand >= 70 /\ sand <= 85 /\ 2 * silt + 3 * clay <= 30

Rule2(sand, silt, clay) == sand >= 70 /\ sand <= 85 /\ 2 * silt + 3 * clay < 30

Rule3(sand, silt, clay) == clay >= 40 /\ sand <= 45 /\ silt <= 40

Rule4(sand, silt, clay) == clay >= 27 /\ clay < 40 /\ sand <= 20

Rule5_SiltAtLeast50(sand, silt, clay) == sand < 50 /\ silt >= 50 /\ clay < 27

Rule5(sand, silt, clay) == sand < 50 /\ silt >= 28 /\ silt < 50 /\ clay < 27

Rule6(sand, silt, clay) ==
    sand >= 23 /\ sand < 52 /\ silt >= 28 /\ silt < 50 /\ clay >= 7 /\ clay < 27

\* the branch taken: the first condition that holds, 7 for the final else
BranchTaken(sand, silt, clay) ==
    IF Rule1(sand, silt, clay) THEN 1
    ELSE IF Rule2(sand, silt, clay) THEN 2
    ELSE IF Rule3(sand, silt, clay) THEN 3
    ELSE IF Rule4(sand, silt, clay) THEN 4
    ELSE IF Rule5(sand, silt, clay) THEN 5
    ELSE IF Rule6(sand, silt, clay) THEN 6
    ELSE 7

\* a ladder whose final else is missing: the function falls off its end
BranchReturn_NoElse(b) ==
    CASE b = 1 -> Sandy
      [] b = 2 -> SandyLoam
      [] b = 3 -> Clay
      [] b = 4 -> ClayLoam
      [] b = 5 -> SiltLoam
      [] b = 6 -> Loam
      [] OTHER -> NoClass

\* what each branch returns
BranchReturn(b) ==
    CASE b = 1 -> Sandy
      [] b = 2 -> SandyLoam
      [] b = 3 -> Clay
      [] b = 4 -> ClayLoam
      [] b = 5 -> SiltLoam
      [] b = 6 -> Loam
      [] OTHER -> Loam

determine_soil_type(sand, silt, clay) == BranchReturn(BranchTaken(sand, silt, clay))

-----------------------------------------------------------------------------
(* Values of the variables a specification does not use *)

NoArgs == <<>>
\* no ring drawn yet
NoDrawing == <<>>
\* generate_pdf_report not called in this execution
NoReport == [pdf |-> "None"]
NoMask == <<>>
NoFrame == <<>>

IdleClassifier == args = NoArgs /\ results = <<>> /\ branch = 0
IdleSession ==
    /\ theme = "light" /\ drawing = NoDrawing /\ df = NoFrame
    /\ in_region = NoMask /\ filtered_df = NoFrame /\ selected_point = 0
    /\ report = NoReport

-----------------------------------------------------------------------------
(* SpecClassify: determine_soil_type as a function of its arguments *)

Percents == 0 .. Total

Abs(x) == IF x < 0 THEN -x ELSE x

ClassifyInputs ==
    {<<sand, silt, Total + d - sand - silt>> :
        sand \in Percents, silt \in Percents, d \in (-SumSlack) .. SumSlack}
    \cap (Percents \X Percents \X Percents)

InitClassify ==
    /\ pc = "classify"
    /\ args \in ClassifyInputs
    /\ results = <<>>
    /\ branch = 0
    /\ IdleSession

\* one call determine_soil_type(sand, silt, clay)
Classify ==
    /\ pc = "classify"
    /\ Len(results) < MaxCalls
    /\ branch' = BranchTaken(args[1], args[2], args[3])
    /\ results' = Append(results, determine_soil_type(args[1], args[2], args[3]))
    /\ UNCHANGED <<pc, args, theme, drawing, df, in_region, filtered_df,
                   selected_point, report>>

NextClassify == Classify

SpecClassify == InitClassify /\ [][NextClassify]_vars

Returned == pc = "classify" /\ Len(results) > 0
soil_type == results[Len(results)]
SumsTo100 == args[1] + args[2] + args[3] = Total
\* the sum is further from 100 than the tolerance of 0.5
BeyondTolerance == 2 * Abs(args[1] + args[2] + args[3] - Total) > 1

-----------------------------------------------------------------------------
(* Claims about determine_soil_type, under SpecClassify *)

\* C1 as stated: classify(40, 40, 20) returns Loam, through rule 6, the
\* first rule of the ladder that matches.
C1_Loam_By_Rule6 ==
    (Returned /\ args = <<40, 40, 20>>) => (soil_type = Loam /\ branch = 6)

\* C1 as amended: classify(40, 40, 20) returns Silt Loam, because rule 5
\* (sand < 50, 28 <= silt < 50, clay < 27) matches it before rule 6 is
\* tried; rules 1 to 4 do not match it.
C1_SiltLoam_By_Rule5 ==
    (Returned /\ args = <<40, 40, 20>>) =>
        /\ soil_type = SiltLoam
        /\ branch = 5
        /\ Rule6(40, 40, 20)
        /\ ~Rule1(40, 40, 20) /\ ~Rule2(40, 40, 20)
        /\ ~Rule3(40, 40, 20) /\ ~Rule4(40, 40, 20)

C1_Witness == Returned /\ args = <<40, 40, 20>>

\* C2: whenever sand + silt + clay differs from 100 by more than 0.5,
\* classify fails with InvalidCompositionError and returns no class.
C2_InvalidComposition_Rejected ==
    (Returned /\ BeyondTolerance) =>
        (soil_type = InvalidCompositionError /\ soil_type \notin SoilTypes)

\* C4: for every integer composition in [0,100]^3 that sums to 100, classify
\* returns one of the six classes, never an absent value, and every call
\* with the same arguments returns the same class.
C4_Total_And_Repeatable ==
    (Returned /\ SumsTo100) =>
        /\ \A i \in DOMAIN results : results[i] \in SoilTypes
        /\ \A i, j \in DOMAIN results : results[i] = results[j]

C4_Witness == Returned /\ SumsTo100 /\ Len(results) = 2 /\ branch = 7

\* C10: for every integer composition in [0,100]^3 that sums to 100, rule 2
\* never fires and classify never returns Sandy Loam.
C10_SandyLoam_Unreachable ==
    SumsTo100 =>
        /\ ~Rule2(args[1], args[2], args[3])
        /\ Returned => (branch # 2 /\ soil_type # SandyLoam)

\* a composition inside rule 2's sand band has been classified
C10_Witness ==
    Returned /\ SumsTo100 /\ args[1] >= 70 /\ args[1] <= 85 /\ args[3] = 0

-----------------------------------------------------------------------------
(* generate_soil_data: the rows of the DataFrame *)

\* what the generator draws for one row; sand from randint(0, 100), silt
\* from randint(0, 100 - sand), both with the upper end excluded
GeneratorCompositions ==
    {<<sand, silt>> \in (0 .. Total - 1) \X (0 .. Total - 1) : silt < Total - sand}

\* a row built from the draws d = [sand, silt, lat, lon, ph, ec, depth],
\* the class computed from arguments in the wrong order
SoilRow_SwappedArgs(d) ==
    LET clay == Total - d.sand - d.silt
    IN  [lat |-> d.lat, lon |-> d.lon,
         soil_type |-> determine_soil_type(d.sand, clay, d.silt),
         ph |-> d.ph, ec |-> d.ec, depth |-> d.depth,
         sand |-> d.sand, silt |-> d.silt, clay |-> clay]

\* a row built from the draws d = [sand, silt, lat, lon, ph, ec, depth]
SoilRow(d) ==
    LET clay == Total - d.sand - d.silt
    IN  [lat |-> d.lat, lon |-> d.lon,
         soil_type |-> determine_soil_type(d.sand, d.silt, clay),
         ph |-> d.ph, ec |-> d.ec, depth |-> d.depth,
         sand |-> d.sand, silt |-> d.silt, clay |-> clay]

\* pd.DataFrame(data): the rows in order, labelled 0, 1, 2, ...
DataFrame(rows) == [i \in 1 .. Len(rows) |-> [idx |-> i - 1] @@ rows[i]]

\* every DataFrame generate_soil_data(num) can return when each row's draws
\* come from the set draws
generate_soil_data(num, draws) ==
    {DataFrame(rows) : rows \in [1 .. num -> {SoilRow(d) : d \in draws}]}

\* round(uniform(5.5, 8.5), 1), in tenths
GeneratorPh == 55 .. 85
\* f"{uniform(0.5, 4.5):.1f} dS/m": the text holds the value to one decimal,
\* and the report's regular expression (\d+\.\d+) reads the same tenths back
GeneratorEc == 5 .. 45
\* f"{randint(30, 150)} cm", read back by (\d+)
GeneratorDepth == 30 .. 149

\* the draws of one row the model lets the generator make: the given values,
\* as far as the generator can produce them
Draws(comps, lats, lons, phs, ecs, depths) ==
    {[sand |-> c[1], silt |-> c[2], lat |-> la, lon |-> lo, ph |-> p,
      ec |-> e, depth |-> dp] :
        c \in comps \cap GeneratorCompositions, la \in lats, lo \in lons,
        p \in phs \cap GeneratorPh, e \in ecs \cap GeneratorEc,
        dp \in depths \cap GeneratorDepth}

-----------------------------------------------------------------------------
(* PolygonAnalyzer.points_in_polygon and the boolean indexing of main *)

\* Polygon(coords): the ring is closed when the caller left it open
Ring(coords) ==
    IF coords[1] = coords[Len(coords)] THEN coords ELSE Append(coords, coords[1])

Min(a, b) == IF a < b THEN a ELSE b
Max(a, b) == IF a > b THEN a ELSE b

\* the point (x, y) lies on the segment from a to b
OnEdge(x, y, a, b) ==
    /\ (b[1] - a[1]) * (y - a[2]) = (b[2] - a[2]) * (x - a[1])
    /\ Min(a[1], b[1]) <= x /\ x <= Max(a[1], b[1])
    /\ Min(a[2], b[2]) <= y /\ y <= Max(a[2], b[2])

\* the ray from (x, y) towards larger x crosses the segment from a to b
Crosses(x, y, a, b) ==
    /\ (a[2] > y) # (b[2] > y)
    /\ LET dy == b[2] - a[2]
           lhs == (x - a[1]) * dy
           rhs == (y - a[2]) * (b[1] - a[1])
       IN  IF dy > 0 THEN lhs < rhs ELSE lhs > rhs

\* Point((x, y)).within(Polygon(coords)): in the interior, not on the boundary
Within(x, y, coords) ==
    LET ring == Ring(coords)
        edges == 1 .. Len(ring) - 1
    IN  /\ \A i \in edges : ~OnEdge(x, y, ring[i], ring[i + 1])
        /\ Cardinality({i \in edges : Crosses(x, y, ring[i], ring[i + 1])}) % 2 = 1

\* the point (x, y) lies on the boundary of Polygon(coords)
OnBoundary(x, y, coords) ==
    LET ring == Ring(coords)
    IN  \E i \in 1 .. Len(ring) - 1 : OnEdge(x, y, ring[i], ring[i + 1])

\* [Point(p).within(polygon) for p in zip(points.lat, points.lon)]:
\* the point's x is the latitude, its y the longitude
points_in_polygon(points, polygon_coords) ==
    [i \in 1 .. Len(points) |->
        Within(points[i].lat, points[i].lon, polygon_coords)]

\* rows kept in the opposite order
BooleanIndex_Reversed(frame, mask) ==
    LET F[i \in 0 .. Len(frame)] ==
            IF i = 0 THEN <<>>
            ELSE IF mask[i] THEN <<frame[i]>> \o F[i - 1] ELSE F[i - 1]
    IN  F[Len(frame)]

\* df[mask]: the rows whose mask entry is True, in order, labels kept
BooleanIndex(frame, mask) ==
    LET F[i \in 0 .. Len(frame)] ==
            IF i = 0 THEN <<>>
            ELSE IF mask[i] THEN Append(F[i - 1], frame[i]) ELSE F[i - 1]
    IN  F[Len(frame)]

-----------------------------------------------------------------------------
(* generate_pdf_report: the header figures and the table of class means *)

NaN == "nan"
EmptyInputError == "EmptyInputError"

RECURSIVE SumOf(_, _)
\* the sum of field f over the rows of a frame
SumOf(frame, f) ==
    IF frame = <<>> THEN 0 ELSE frame[1][f] + SumOf(Tail(frame), f)

\* the integers nearest to num/den (num >= 0, den > 0): two of them on a tie
Nearest(num, den) ==
    LET q == num \div den
        r == num % den
    IN  IF 2 * r < den THEN {q}
        ELSE IF 2 * r > den THEN {q + 1}
        ELSE {q, q + 1}

\* the tie goes to the even neighbour
HalfEven(num, den) ==
    LET near == Nearest(num, den)
    IN  IF Cardinality(near) = 1 THEN near ELSE {q \in near : q % 2 = 0}

\* f"{column.mean():.<d>f}" for a column of floats that are themselves
\* decimal fractions (pH, EC): the digits printed, as an integer in units of
\* the last digit.  The mean of such floats carries rounding error, so a
\* mean that is a tie in decimal prints as either neighbour.  An empty
\* column has mean NaN, printed "nan".
FormatMeanOfDecimals(frame, f) ==
    IF frame = <<>> THEN {NaN} ELSE Nearest(SumOf(frame, f), Len(frame))

\* f"{column.mean():.<d>f}" for a column of whole numbers: sums are exact,
\* a tie is exact, and the formatting rounds it half to even.  scale is
\* 10^d.
FormatMeanOfIntegers(frame, f, scale) ==
    IF frame = <<>> THEN {NaN} ELSE HalfEven(SumOf(frame, f) * scale, Len(frame))

RECURSIVE Unique(_)
\* Series.unique(): the distinct values in order of first appearance
Unique(values) ==
    IF values = <<>> THEN <<>>
    ELSE <<values[1]>> \o Unique(SelectSeq(Tail(values), LAMBDA v : v # values[1]))

Column(frame, f) == [i \in 1 .. Len(frame) |-> frame[i][f]]

\* the means taken over every row, whatever its class
ClassSubset_AllRows(frame, soil) == frame

\* selected_area_data[selected_area_data["soil type"] == soil_type]
ClassSubset(frame, soil) == SelectSeq(frame, LAMBDA row : row.soil_type = soil)

\* the table rows the loop can append for one class
TableRows(frame, soil) ==
    LET subset == ClassSubset(frame, soil)
    IN  {[soil_type |-> soil, mean_ph |-> p, mean_ec |-> e, mean_depth |-> d] :
            p \in FormatMeanOfDecimals(subset, "ph"),
            e \in FormatMeanOfDecimals(subset, "ec"),
            d \in FormatMeanOfIntegers(subset, "depth", 1)}

RECURSIVE Tables(_, _)
\* the tables the loop over unique() can build, below the heading row
Tables(frame, classes) ==
    IF classes = <<>> THEN {<<>>}
    ELSE {<<r>> \o t : r \in TableRows(frame, classes[1]),
                       t \in Tables(frame, Tail(classes))}

\* what generate_pdf_report(data, selected_area_data) can draw: the number of
\* samples, the means of data's lat and lon to 4 decimals, and the table;
\* no statement of it raises, so the call returns (raised is "None")
generate_pdf_report(data, selected_area_data) ==
    {[raised |-> "None", n_samples |-> Len(selected_area_data),
      mean_lat |-> la, mean_lon |-> lo, table |-> t] :
        la \in FormatMeanOfIntegers(data, "lat", 10000),
        lo \in FormatMeanOfIntegers(data, "lon", 10000),
        t \in Tables(selected_area_data,
                     Unique(Column(selected_area_data, "soil_type")))}

-----------------------------------------------------------------------------
(* SpecFilter: points_in_polygon and df[mask] as functions of their inputs *)

\* sample coordinates are 0, 2, .., 2*GridMax; region vertices lie on the odd
\* coordinates -1, 1, .., 2*GridMax + 1 around them
GridMax == 1
\* the longest DataFrame handed to the filter
MaxSamples == 3

SampleCoords == {2 * i : i \in 0 .. GridMax}
VertexCoords == {2 * j - 1 : j \in 0 .. GridMax + 1}

\* rings of [lon, lat] pairs as the drawing widget reports them, one set per
\* bounding box that starts at the lowest longitude: the rectangle with the
\* ring left open, the rectangle with the ring closed, and a triangle drawn
\* clockwise
Regions ==
    UNION {
        { << <<x1, y1>>, <<x2, y1>>, <<x2, y2>>, <<x1, y2>> >>,
          << <<x1, y1>>, <<x2, y1>>, <<x2, y2>>, <<x1, y2>>, <<x1, y1>> >>,
          << <<x1, y1>>, <<x1, y2>>, <<x2, y1>> >> } :
        <<x1, x2, y1, y2>> \in
            {b \in {-1} \X VertexCoords \X VertexCoords \X VertexCoords :
                b[1] < b[2] /\ b[3] < b[4]} }

FilterDraws == Draws({<<40, 40>>}, SampleCoords, SampleCoords, {70}, {20}, {30})

InitFilter ==
    /\ pc = "filter"
    /\ IdleClassifier
    /\ theme = "light"
    /\ drawing \in Regions
    /\ \E n \in 0 .. MaxSamples : df \in generate_soil_data(n, FilterDraws)
    /\ in_region = NoMask
    /\ filtered_df = NoFrame
    /\ selected_point = 0
    /\ report = NoReport

\* df["in region"] = points_in_polygon(df, polygon_coords); df[df["in region"]]
Filter ==
    /\ pc = "filter"
    /\ in_region' = points_in_polygon(df, drawing)
    /\ filtered_df' = BooleanIndex(df, in_region')
    /\ pc' = "filtered"
    /\ UNCHANGED <<args, results, branch, theme, drawing, df, selected_point, report>>

NextFilter == Filter

SpecFilter == InitFilter /\ [][NextFilter]_vars

Filtered == pc = "filtered"

\* the row of df labelled k was returned by the filter
Kept(k) == \E j \in DOMAIN filtered_df : filtered_df[j].idx = k

-----------------------------------------------------------------------------
(* Claims about the region filter, under SpecFilter *)

\* C3: a sample whose (lon, lat) lies strictly inside the polygon of the
\* region's (lon, lat) vertices is returned, and a sample whose (lon, lat)
\* lies strictly outside it is not.
C3_Kept_Iff_LonLat_Inside ==
    Filtered =>
        \A i \in DOMAIN df :
            /\ Within(df[i].lon, df[i].lat, drawing) => Kept(df[i].idx)
            /\ (~Within(df[i].lon, df[i].lat, drawing)
                    /\ ~OnBoundary(df[i].lon, df[i].lat, drawing))
                => ~Kept(df[i].idx)

-----------------------------------------------------------------------------
(* SpecReport: generate_pdf_report as a function of its two DataFrames *)

\* Clay rows of several pH values, Silt Loam rows of several EC and depths
ReportDraws ==
    Draws({<<10, 10>>}, {0}, {0}, {60, 61, 70, 80}, {20}, {30})
    \cup Draws({<<40, 40>>}, {2}, {0}, {70}, {20, 21}, {30, 31})

InitReport ==
    /\ pc = "report"
    /\ IdleClassifier
    /\ theme = "light"
    /\ drawing = NoDrawing
    /\ \E n \in 0 .. MaxSamples :
          /\ df \in generate_soil_data(n, ReportDraws)
          /\ in_region \in [1 .. n -> BOOLEAN]
    /\ filtered_df = BooleanIndex(df, in_region)
    /\ selected_point = 0
    /\ report = NoReport

\* pdf_buffer = generate_pdf_report(df, filtered_df)
Report ==
    /\ pc = "report"
    /\ report' \in generate_pdf_report(df, filtered_df)
    /\ pc' = "reported"
    /\ UNCHANGED <<args, results, branch, theme, drawing, df, in_region,
                   filtered_df, selected_point>>

NextReport == Report

SpecReport == InitReport /\ [][NextReport]_vars

Reported == pc = "reported"

\* the classes stored in the rows handed to the aggregation
StoredClasses == {filtered_df[i].soil_type : i \in DOMAIN filtered_df}
\* the rows of one stored class
Group(soil) == SelectSeq(filtered_df, LAMBDA row : row.soil_type = soil)

\* the table has one row per class that occurs, and none for any other
TableListsStoredClasses ==
    /\ {report.table[i].soil_type : i \in DOMAIN report.table} = StoredClasses
    /\ \A i, j \in DOMAIN report.table :
          report.table[i].soil_type = report.table[j].soil_type => i = j
    /\ filtered_df = <<>> => report.table = <<>>

\* the groups of the reported classes partition the rows
GroupsPartitionInput ==
    /\ \A i \in DOMAIN filtered_df :
          Cardinality({j \in DOMAIN report.table :
              report.table[j].soil_type = filtered_df[i].soil_type}) = 1
    /\ \A j \in DOMAIN report.table : Group(report.table[j].soil_type) # <<>>

-----------------------------------------------------------------------------
(* Claims about the aggregation, under SpecReport *)

\* C7 as stated: the table reports exactly the classes that occur, grouped
\* by the stored class, the groups partition the input, an empty input gives
\* an empty table, and each class's mean acidity is the sum of its samples'
\* acidities divided by their count.
C7_Mean_Is_Sum_Over_Count ==
    Reported =>
        /\ TableListsStoredClasses
        /\ GroupsPartitionInput
        /\ \A j \in DOMAIN report.table :
              LET g == Group(report.table[j].soil_type)
              IN  report.table[j].mean_ph * Len(g) = SumOf(g, "ph")

\* C7 as amended: as stated, except that each class's reported mean is the
\* sum of its samples' values divided by their count and then rounded to the
\* digits printed: pH and EC to one decimal, depth to a whole number (a tie
\* of whole numbers to the even neighbour).
C7_Mean_Is_Rounded_Sum_Over_Count ==
    Reported =>
        /\ TableListsStoredClasses
        /\ GroupsPartitionInput
        /\ \A j \in DOMAIN report.table :
              LET g == Group(report.table[j].soil_type)
                  row == report.table[j]
              IN  /\ 2 * Abs(row.mean_ph * Len(g) - SumOf(g, "ph")) <= Len(g)
                  /\ 2 * Abs(row.mean_ec * Len(g) - SumOf(g, "ec")) <= Len(g)
                  /\ 2 * Abs(row.mean_depth * Len(g) - SumOf(g, "depth")) <= Len(g)
                  /\ (2 * Abs(row.mean_depth * Len(g) - SumOf(g, "depth")) = Len(g))
                        => row.mean_depth % 2 = 0

\* three Clay samples of pH 6.0, 7.0, 8.0 were summarized: the table has the
\* one row for Clay, with mean pH 7.0
C7_Witness ==
    /\ Reported
    /\ Len(filtered_df) = 3
    /\ \A i \in DOMAIN filtered_df : filtered_df[i].soil_type = Clay
    /\ {filtered_df[i].ph : i \in DOMAIN filtered_df} = {60, 70, 80}
    /\ Len(report.table) = 1
    /\ report.table[1].soil_type = Clay /\ report.table[1].mean_ph = 70

\* C8: asked for the mean latitude and longitude of an empty sample set, the
\* computation fails with EmptyInputError; it returns no value, NaN included.
C8_Empty_Bounds_Rejected ==
    (Reported /\ df = <<>>) =>
        /\ report.raised = EmptyInputError
        /\ report.mean_lat # NaN /\ report.mean_lon # NaN

-----------------------------------------------------------------------------
(* Spec: a browser session.  Every interaction re-executes main from its   *)
(* first line with the widget state kept in st.session_state.              *)

\* rows of the DataFrame main generates (generate_soil_data(150))
NumSamples == 2

\* what the generator draws in the session: a Clay and a Silt Loam
\* composition at two places
SessionDraws ==
    Draws({<<10, 10>>, <<40, 40>>}, {0, 2}, {0}, {70}, {20}, {30})

\* the rings the drawing widget reports in the session
SessionRegions ==
    { << <<-1, -1>>, <<1, -1>>, <<1, 1>>, <<-1, 1>> >>,
      << <<-1, -1>>, <<3, -1>>, <<3, 1>>, <<-1, 1>>, <<-1, -1>> >> }

Themes == {"light", "dark"}

\* one execution of main with the widgets at (th, dr, sel) and the PDF
\* button clicked or not
Main(th, dr, sel, clicked) ==
    \E fresh \in generate_soil_data(NumSamples, SessionDraws) :
        /\ theme' = th
        /\ drawing' = dr
        /\ selected_point' = sel
        /\ df' = fresh
        /\ IF dr # NoDrawing
           THEN /\ in_region' = points_in_polygon(fresh, dr)
                /\ filtered_df' = BooleanIndex(fresh, in_region')
                /\ IF clicked
                   THEN report' \in generate_pdf_report(fresh, filtered_df')
                   ELSE report' = NoReport
           ELSE /\ in_region' = NoMask
                /\ filtered_df' = NoFrame
                /\ report' = NoReport
        /\ UNCHANGED <<pc, args, results, branch>>

\* the session after main's first execution
Init ==
    /\ pc = "session"
    /\ IdleClassifier
    /\ theme = "light"
    /\ drawing = NoDrawing
    /\ df \in generate_soil_data(NumSamples, SessionDraws)
    /\ in_region = NoMask
    /\ filtered_df = NoFrame
    /\ selected_point = 0
    /\ report = NoReport

\* the theme selectbox of the sidebar is changed
ChangeTheme ==
    /\ pc = "session"
    /\ \E th \in Themes \ {theme} : Main(th, drawing, selected_point, FALSE)

\* a polygon is drawn on the map
DrawRegion ==
    /\ pc = "session"
    /\ \E dr \in SessionRegions : Main(theme, dr, selected_point, FALSE)

\* another sample is chosen in the selectbox
SelectSample ==
    /\ pc = "session"
    /\ \E sel \in (0 .. NumSamples - 1) \ {selected_point} :
          Main(theme, drawing, sel, FALSE)

\* the PDF button, shown once a polygon is drawn, is clicked
ClickPdfButton ==
    /\ pc = "session"
    /\ drawing # NoDrawing
    /\ Main(theme, drawing, selected_point, TRUE)

\* the download button, shown with the report, is clicked
ClickDownload ==
    /\ pc = "session"
    /\ report # NoReport
    /\ Main(theme, drawing, selected_point, FALSE)

Next ==
    \/ ChangeTheme
    \/ DrawRegion
    \/ SelectSample
    \/ ClickPdfButton
    \/ ClickDownload

Spec == Init /\ [][Next]_vars

\* a draw of the composition c, whatever the session's SessionDraws holds
AnyDraw(c) ==
    [sand |-> c[1], silt |-> c[2], lat |-> 0, lon |-> 0, ph |-> 70, ec |-> 20,
     depth |-> 30]

\* the stored class of a row is the class of its stored percentages
ClassMatches(row) ==
    row.soil_type = determine_soil_type(row.sand, row.silt, row.clay)

-----------------------------------------------------------------------------
(* Claims about the session, under Spec *)

\* C5: in every state of the session, every sample's stored class equals
\* classify applied to its stored percentages, in the generated DataFrame
\* and in the filtered one after a region has been drawn; and the row the
\* generator builds has that property for every composition it can draw.
C5_Stored_Class_Is_Classified ==
    /\ \A i \in DOMAIN df : ClassMatches(df[i])
    /\ \A j \in DOMAIN filtered_df : ClassMatches(filtered_df[j])
    /\ \A c \in GeneratorCompositions : ClassMatches(SoilRow(AnyDraw(c)))

\* a region is drawn and the filter kept a Clay sample
C5_Witness ==
    /\ drawing # NoDrawing
    /\ \E j \in DOMAIN filtered_df : filtered_df[j].soil_type = Clay

\* C9: across the interactions of a session the sample set stays the one
\* first generated: no execution of main changes the samples.
C9_Samples_Never_Change == [][pc = "session" => df' = df]_vars

=============================================================================
